---- MODULE Spec2Model ----
(***************************************************************************)
(* scripts/yaml-to-tfvars.py: the value serializer (to_hcl_value), the     *)
(* converter (yaml_to_tfvars), the validator (validate_config) and the     *)
(* driver (main).                                                          *)
(*                                                                         *)
(* A Python str is a sequence of one-character strings (two characters     *)
(* that a string of the model cannot hold are written by name: Surrogate,  *)
(* NonAscii), so that escaping,                                            *)
(* joining, suffix tests and substring tests are computed as the code      *)
(* computes them.  A parsed YAML value is a tagged record:                 *)
(*   [t |-> "null"], [t |-> "bool", b], [t |-> "int", n], [t |-> "str", s],*)
(*   [t |-> "list", items], [t |-> "dict", entries] (entries: a sequence   *)
(*   of <<key, value>> pairs in insertion order, keys distinct),           *)
(*   [t |-> "float", repr], [t |-> "bytes", data], [t |-> "set", members]  *)
(*   (members: a sequence of strs in iteration order), and                 *)
(*   [t |-> "other", repr] for a date or a datetime (repr: Python's str()).*)
(***************************************************************************)
EXTENDS Integers, Sequences, FiniteSets, TLC

VARIABLES
  yaml_installed, \* whether `import yaml` finds PyYAML
  argv,           \* the command line (one of CommandLines)
  file_state,     \* the file at args.config_file (one of FileStates)
  file_doc,       \* what yaml.safe_load returns for it when it parses
  env,            \* the process environment (one of Envs)
  out_path,       \* the path at args.output (one of Outs)
  args,           \* main: args (NoArgs before parse_args returns)
  config,         \* main: config (NoConfig before it is loaded)
  errors,         \* main: the outcome of validate_config(config)
  tfvars,         \* main: the outcome of yaml_to_tfvars(config)
  out_file,       \* the file at args.output: NotOpened, or opened with the text in it
  stdout,         \* the texts standard output has taken, one per print call
  stderr,         \* the texts the error stream has taken, one per print call
  exit_code,      \* process exit status, -1 while running
  pc,             \* position in main
  value,          \* serializer run: the value tree
  indent,         \* serializer run: the indent argument
  hcl,            \* serializer run: the text returned
  spc             \* serializer run: position

vars == <<yaml_installed, argv, file_state, file_doc, env, out_path, args, config,
          errors, tfvars, out_file, stdout, stderr, exit_code, pc,
          value, indent, hcl, spc>>

mainVars == <<yaml_installed, argv, file_state, file_doc, env, out_path, args, config,
              errors, tfvars, out_file, stdout, stderr, exit_code, pc>>

hclVars == <<value, indent, hcl, spc>>

----------------------------------------------------------------------------
(* Python str operations *)

\* sep.join(parts)
RECURSIVE Join(_, _)
Join(parts, sep) ==
  IF Len(parts) = 0 THEN <<>>
  ELSE IF Len(parts) = 1 THEN parts[1]
  ELSE parts[1] \o sep \o Join(Tail(parts), sep)

\* s.replace(old, new) for a one-character old
RECURSIVE Replace(_, _, _)
Replace(s, old, new) ==
  IF Len(s) = 0 THEN <<>>
  ELSE (IF Head(s) = old THEN new ELSE <<Head(s)>>) \o Replace(Tail(s), old, new)

\* s.endswith(suffix)
EndsWith(s, suffix) ==
  /\ Len(s) >= Len(suffix)
  /\ SubSeq(s, Len(s) - Len(suffix) + 1, Len(s)) = suffix

\* sub in s, for two strs
Contains(s, sub) ==
  \E i \in 1..(Len(s) - Len(sub) + 1) : SubSeq(s, i, i + Len(sub) - 1) = sub

Digits == <<"0", "1", "2", "3", "4", "5", "6", "7", "8", "9">>

RECURSIVE NatToStr(_)
NatToStr(n) ==
  IF n < 10 THEN <<Digits[n + 1]>>
  ELSE NatToStr(n \div 10) \o <<Digits[(n % 10) + 1]>>

\* str(n) for an int
IntToStr(n) == IF n < 0 THEN <<"-">> \o NatToStr(-n) ELSE NatToStr(n)

\* ' ' * n
Spaces(n) == [i \in 1..n |-> " "]

\* The lone surrogate U+D800, which no encoding takes, and the letter U+00E9,
\* which ASCII does not take
Surrogate == "U+D800"
NonAscii == "U+00E9"

\* repr(s) for a str of printable characters, newlines and the two above
ReprChar(c, quote) ==
  IF c = "\\" THEN <<"\\", "\\">>
  ELSE IF c = quote THEN << "\\", quote >>
  ELSE IF c = "\n" THEN <<"\\", "n">>
  ELSE IF c = Surrogate THEN <<"\\", "u", "d", "8", "0", "0">>
  ELSE << c >>

PyRepr(s) ==
  LET quote == IF (\E i \in DOMAIN s : s[i] = "'") /\ ~(\E i \in DOMAIN s : s[i] = "\"")
               THEN "\"" ELSE "'"
  IN  << quote >> \o Join([i \in DOMAIN s |-> ReprChar(s[i], quote)], <<>>) \o << quote >>

----------------------------------------------------------------------------
(* Parsed values *)

VNull == [t |-> "null"]
VBool(b) == [t |-> "bool", b |-> b]
VInt(n) == [t |-> "int", n |-> n]
VStr(s) == [t |-> "str", s |-> s]
VList(items) == [t |-> "list", items |-> items]
VDict(entries) == [t |-> "dict", entries |-> entries]
VFloat(repr) == [t |-> "float", repr |-> repr]
\* A bytes object (!!binary); data holds its bytes as characters, all of them
\* printable ASCII other than the quote and the backslash
VBytes(data) == [t |-> "bytes", data |-> data]
\* A set (!!set) of strs; members in the order iteration yields them
VSet(members) == [t |-> "set", members |-> members]
\* A date or a datetime (a YAML timestamp)
VOther(repr) == [t |-> "other", repr |-> repr]

\* bool(v)
Truthy(v) ==
  CASE v.t = "null" -> FALSE
    [] v.t = "bool" -> v.b
    [] v.t = "int" -> v.n # 0
    [] v.t = "str" -> Len(v.s) > 0
    [] v.t = "list" -> Len(v.items) > 0
    [] v.t = "dict" -> Len(v.entries) > 0
    [] v.t = "float" -> v.repr \notin { <<"0", ".", "0">>, <<"-", "0", ".", "0">> }
    [] v.t = "bytes" -> Len(v.data) > 0
    [] v.t = "set" -> Len(v.members) > 0
    [] OTHER -> TRUE

\* key in d, for a dict d
HasKey(d, key) == \E i \in DOMAIN d.entries : d.entries[i][1] = key

\* d[key], for a dict d that has the key
Item(d, key) == d.entries[CHOOSE i \in DOMAIN d.entries : d.entries[i][1] = key][2]

\* d.get(key, default), for a dict d
DictGet(d, key, default) == IF HasKey(d, key) THEN Item(d, key) ELSE default

\* v == s, for a str literal s
EqStr(v, s) == v.t = "str" /\ v.s = s

\* str(v) for a bytes object, a set of strs, a date or a datetime
StrOf(v) ==
  CASE v.t = "bytes" -> <<"b", "'">> \o v.data \o <<"'">>
    [] v.t = "set" ->
         IF Len(v.members) = 0 THEN <<"s", "e", "t", "(", ")">>
         ELSE <<"{">> \o Join([i \in DOMAIN v.members |-> PyRepr(v.members[i])], <<",", " ">>)
              \o <<"}">>
    [] OTHER -> v.repr

----------------------------------------------------------------------------
(* to_hcl_value *)

\* A swapped order of the two replacements: the backslash added before a
\* double quote is doubled by the second one.
EscapeStrQuoteFirst(s) == Replace(Replace(s, "\"", <<"\\", "\"">>), "\\", <<"\\", "\\">>)

\* value.replace('\\', '\\\\').replace('"', '\\"')
EscapeStr(s) == Replace(Replace(s, "\\", <<"\\", "\\">>), "\"", <<"\\", "\"">>)

\* A sequence that hands its own indent to its items
ItemIndentSame(ind) == ind

\* The indent a sequence hands to its items: to_hcl_value(item, indent + 2)
ItemIndent(ind) == ind + 2

RECURSIVE to_hcl_value(_, _)
to_hcl_value(val, ind) ==
  CASE val.t = "null" -> <<"\"", "\"">>
    [] val.t = "bool" -> IF val.b THEN <<"t", "r", "u", "e">> ELSE <<"f", "a", "l", "s", "e">>
    [] val.t = "int" -> IntToStr(val.n)
    [] val.t = "float" -> val.repr
    [] val.t = "str" -> <<"\"">> \o EscapeStr(val.s) \o <<"\"">>
    [] val.t = "list" ->
         IF Len(val.items) = 0 THEN <<"[", "]">>
         ELSE <<"[">>
              \o Join([i \in DOMAIN val.items |->
                         to_hcl_value(val.items[i], ItemIndent(ind))],
                      <<",", " ">>)
              \o <<"]">>
    [] val.t = "dict" ->
         IF Len(val.entries) = 0 THEN <<"{", "}">>
         ELSE <<"{", "\n">>
              \o Join([i \in DOMAIN val.entries |->
                         Spaces(ind + 2) \o val.entries[i][1] \o <<" ", "=", " ">>
                         \o to_hcl_value(val.entries[i][2], ind + 2)],
                      <<"\n">>)
              \o <<"\n">> \o Spaces(ind) \o <<"}">>
    [] OTHER -> <<"\"">> \o StrOf(val) \o <<"\"">>

----------------------------------------------------------------------------
(* yaml_to_tfvars *)

\* An outcome of a call: it returned ret, or it raised the exception named exc.
Returned(ret) == [raised |-> FALSE, exc |-> <<>>, ret |-> ret]
Raised(exc) == [raised |-> TRUE, exc |-> exc, ret |-> <<>>]

\* lines = [...] of yaml_to_tfvars: the five comment lines and an empty line
Header ==
  << <<"#", " ", "A", "u", "t", "o", "-", "g", "e", "n", "e", "r", "a", "t", "e", "d", " ", "f", "r", "o", "m", " ", "c", "o", "n", "f", "i", "g", ".", "y", "m", "l">>,
     <<"#", " ", "D", "o", " ", "n", "o", "t", " ", "e", "d", "i", "t", " ", "d", "i", "r", "e", "c", "t", "l", "y", " ", "-", " ", "m", "o", "d", "i", "f", "y", " ", "c", "o", "n", "f", "i", "g", ".", "y", "m", "l", " ", "i", "n", "s", "t", "e", "a", "d">>,
     <<"#">>,
     <<"#", " ", "O", "n", "l", "y", " ", "i", "n", "f", "r", "a", "s", "t", "r", "u", "c", "t", "u", "r", "e", " ", "v", "a", "r", "i", "a", "b", "l", "e", "s", " ", "a", "r", "e", " ", "i", "n", "c", "l", "u", "d", "e", "d", " ", "h", "e", "r", "e", ".">>,
     <<"#", " ", "A", "p", "p", "l", "i", "c", "a", "t", "i", "o", "n", " ", "c", "o", "n", "f", "i", "g", " ", "(", "W", "i", "r", "e", "G", "u", "a", "r", "d", ",", " ", "C", "a", "d", "d", "y", ",", " ", "e", "t", "c", ".", ")", " ", "i", "s", " ", "h", "a", "n", "d", "l", "e", "d", " ", "b", "y", " ", "A", "n", "s", "i", "b", "l", "e", ".">>,
     <<>> >>

\* The groups yaml_to_tfvars reads, in the order it reads them; of each, its
\* fields as <<key, identifier written, test>>: "get" is `if group.get(key)`,
\* "in" is `if key in group`.
AzureFields ==
  << <<<<"l", "o", "c", "a", "t", "i", "o", "n">>, <<"l", "o", "c", "a", "t", "i", "o", "n">>, "get">>,
     <<<<"r", "e", "s", "o", "u", "r", "c", "e", "_", "g", "r", "o", "u", "p">>, <<"r", "e", "s", "o", "u", "r", "c", "e", "_", "g", "r", "o", "u", "p", "_", "n", "a", "m", "e">>, "get">>,
     <<<<"v", "m", "_", "s", "i", "z", "e">>, <<"v", "m", "_", "s", "i", "z", "e">>, "get">>,
     <<<<"u", "s", "e", "_", "s", "t", "a", "t", "i", "c", "_", "i", "p">>, <<"u", "s", "e", "_", "s", "t", "a", "t", "i", "c", "_", "i", "p">>, "in">>,
     <<<<"a", "v", "a", "i", "l", "a", "b", "i", "l", "i", "t", "y", "_", "z", "o", "n", "e", "s">>, <<"a", "v", "a", "i", "l", "a", "b", "i", "l", "i", "t", "y", "_", "z", "o", "n", "e", "s">>, "get">> >>

SshFields ==
  << <<<<"a", "d", "m", "i", "n", "_", "u", "s", "e", "r", "n", "a", "m", "e">>, <<"a", "d", "m", "i", "n", "_", "u", "s", "e", "r", "n", "a", "m", "e">>, "get">>,
     <<<<"p", "u", "b", "l", "i", "c", "_", "k", "e", "y", "_", "p", "a", "t", "h">>, <<"s", "s", "h", "_", "p", "u", "b", "l", "i", "c", "_", "k", "e", "y", "_", "p", "a", "t", "h">>, "get">>,
     <<<<"a", "l", "l", "o", "w", "e", "d", "_", "i", "p", "v", "4">>, <<"a", "l", "l", "o", "w", "e", "d", "_", "s", "s", "h", "_", "i", "p", "v", "4">>, "get">>,
     <<<<"a", "l", "l", "o", "w", "e", "d", "_", "i", "p", "v", "6">>, <<"a", "l", "l", "o", "w", "e", "d", "_", "s", "s", "h", "_", "i", "p", "v", "6">>, "in">> >>

NetworkFields ==
  << <<<<"v", "n", "e", "t", "_", "a", "d", "d", "r", "e", "s", "s", "_", "s", "p", "a", "c", "e">>, <<"v", "n", "e", "t", "_", "a", "d", "d", "r", "e", "s", "s", "_", "s", "p", "a", "c", "e">>, "get">>,
     <<<<"s", "u", "b", "n", "e", "t", "_", "a", "d", "d", "r", "e", "s", "s">>, <<"s", "u", "b", "n", "e", "t", "_", "a", "d", "d", "r", "e", "s", "s">>, "get">> >>

\* A converter that also writes a field of the wireguard group that is not
\* whitelisted
WireguardFieldsWithServer ==
  << <<<<"p", "o", "r", "t">>, <<"w", "i", "r", "e", "g", "u", "a", "r", "d", "_", "p", "o", "r", "t">>, "get">>,
     <<<<"s", "e", "r", "v", "e", "r", "_", "i", "p">>, <<"w", "i", "r", "e", "g", "u", "a", "r", "d", "_", "s", "e", "r", "v", "e", "r", "_", "i", "p">>, "get">> >>

WireguardFields ==
  << <<<<"p", "o", "r", "t">>, <<"w", "i", "r", "e", "g", "u", "a", "r", "d", "_", "p", "o", "r", "t">>, "get">> >>

Groups ==
  << <<<<"a", "z", "u", "r", "e">>, AzureFields>>,
     <<<<"s", "s", "h">>, SshFields>>,
     <<<<"n", "e", "t", "w", "o", "r", "k">>, NetworkFields>>,
     <<<<"w", "i", "r", "e", "g", "u", "a", "r", "d">>, WireguardFields>> >>

\* `name in config`: a key test on a dict, a substring test on a str, a
\* membership test on a list or a set; on another parsed value (None, a bool,
\* a number, a bytes object, a date) the test raises TypeError.
CanTestIn(cfg) == cfg.t \in {"dict", "str", "list", "set"}

InConfig(cfg, name) ==
  CASE cfg.t = "dict" -> HasKey(cfg, name)
    [] cfg.t = "str" -> Contains(cfg.s, name)
    [] cfg.t = "list" -> \E i \in DOMAIN cfg.items : EqStr(cfg.items[i], name)
    [] cfg.t = "set" -> \E i \in DOMAIN cfg.members : cfg.members[i] = name
    [] OTHER -> FALSE

\* One `if group.get(key):` / `if key in group:` statement with its append.
FieldLine(group, field) ==
  LET emit == IF field[3] = "in" THEN HasKey(group, field[1])
              ELSE Truthy(DictGet(group, field[1], VNull))
  IN  IF emit
      THEN << field[2] \o <<" ", "=", " ">> \o to_hcl_value(Item(group, field[1]), 0) >>
      ELSE <<>>

RECURSIVE FieldLines(_, _)
FieldLines(group, fields) ==
  IF Len(fields) = 0 THEN <<>>
  ELSE FieldLine(group, Head(fields)) \o FieldLines(group, Tail(fields))

\* One `if 'name' in config:` block of a group: the lines it appends.
Section(cfg, name, fields) ==
  IF ~CanTestIn(cfg) THEN Raised(<<"T", "y", "p", "e", "E", "r", "r", "o", "r">>)
  ELSE IF ~InConfig(cfg, name) THEN Returned(<<>>)
  ELSE IF cfg.t # "dict" THEN Raised(<<"T", "y", "p", "e", "E", "r", "r", "o", "r">>)
  ELSE LET group == Item(cfg, name)
       IN  IF group.t # "dict" THEN Raised(<<"A", "t", "t", "r", "i", "b", "u", "t", "e", "E", "r", "r", "o", "r">>)
           ELSE Returned(FieldLines(group, fields) \o << <<>> >>)

\* The `if 'tags' in config:` block.
TagsSection(cfg) ==
  IF ~CanTestIn(cfg) THEN Raised(<<"T", "y", "p", "e", "E", "r", "r", "o", "r">>)
  ELSE IF ~InConfig(cfg, <<"t", "a", "g", "s">>) THEN Returned(<<>>)
  ELSE IF cfg.t # "dict" THEN Raised(<<"T", "y", "p", "e", "E", "r", "r", "o", "r">>)
  ELSE Returned(<< <<"t", "a", "g", "s", " ", "=", " ">> \o to_hcl_value(Item(cfg, <<"t", "a", "g", "s">>), 0), <<>> >>)

\* The blocks in the order of the code; the first one that raises ends the call.
RECURSIVE Sections(_, _)
Sections(cfg, groups) ==
  IF Len(groups) = 0 THEN TagsSection(cfg)
  ELSE LET first == Section(cfg, Head(groups)[1], Head(groups)[2])
       IN  IF first.raised THEN first
           ELSE LET rest == Sections(cfg, Tail(groups))
                IN  IF rest.raised THEN rest
                    ELSE Returned(first.ret \o rest.ret)

\* The list `lines` when yaml_to_tfvars reaches its return statement.
tfvars_lines(cfg) ==
  LET body == Sections(cfg, Groups)
  IN  IF body.raised THEN body ELSE Returned(Header \o body.ret)

yaml_to_tfvars(cfg) ==
  LET lines == tfvars_lines(cfg)
  IN  IF lines.raised THEN lines ELSE Returned(Join(lines.ret, <<"\n">>))

----------------------------------------------------------------------------
(* validate_config *)

NotSetProblem(path) == <<" ", " ", "-", " ">> \o path \o <<":", " ", "n", "o", "t", " ", "s", "e", "t", " ", "o", "r", " ", "s", "t", "i", "l", "l", " ", "C", "H", "A", "N", "G", "E", "M", "E">>
DefaultNameProblem == <<" ", " ", "-", " ", "s", "s", "h", ".", "a", "d", "m", "i", "n", "_", "u", "s", "e", "r", "n", "a", "m", "e", ":", " ", "c", "a", "n", "n", "o", "t", " ", "b", "e", " ", "a", " ", "c", "o", "m", "m", "o", "n", " ", "d", "e", "f", "a", "u", "l", "t", " ", "n", "a", "m", "e">>
MaskProblem == <<" ", " ", "-", " ", "s", "s", "h", ".", "a", "l", "l", "o", "w", "e", "d", "_", "i", "p", "v", "4", ":", " ", "m", "u", "s", "t", " ", "e", "n", "d", " ", "w", "i", "t", "h", " ", "/", "3", "2">>

DefaultNames == { <<"a", "d", "m", "i", "n">>, <<"r", "o", "o", "t">>, <<"a", "z", "u", "r", "e", "u", "s", "e", "r">>, <<"u", "b", "u", "n", "t", "u">>, <<"a", "d", "m", "i", "n", "i", "s", "t", "r", "a", "t", "o", "r">> }

\* The body of `for path, value in required:` for one pair.
RequiredProblem(path, val) ==
  IF ~Truthy(val) \/ EqStr(val, <<"C", "H", "A", "N", "G", "E", "M", "E">>) \/ EqStr(val, <<"C", "H", "A", "N", "G", "E", "M", "E", "/", "3", "2">>)
  THEN << NotSetProblem(path) >>
  ELSE <<>>

\* `if ssh.get('admin_username') in [...]:` with its append
DefaultNameRule(admin) ==
  IF \E n \in DefaultNames : EqStr(admin, n) THEN << DefaultNameProblem >> ELSE <<>>

\* `if ssh.get('allowed_ipv4') and not ssh['allowed_ipv4'].endswith('/32'):`
\* with its append.  A falsy value ends the test; a str is tested; a bytes
\* object has endswith but takes no str argument; another value has no endswith.
MaskRule(ipv4) ==
  IF ~Truthy(ipv4) THEN Returned(<<>>)
  ELSE IF ipv4.t = "str"
       THEN Returned(IF EndsWith(ipv4.s, <<"/", "3", "2">>) THEN <<>> ELSE << MaskProblem >>)
  ELSE IF ipv4.t = "bytes" THEN Raised(<<"T", "y", "p", "e", "E", "r", "r", "o", "r">>)
  ELSE Raised(<<"A", "t", "t", "r", "i", "b", "u", "t", "e", "E", "r", "r", "o", "r">>)

validate_config(cfg) ==
  IF cfg.t # "dict" THEN Raised(<<"A", "t", "t", "r", "i", "b", "u", "t", "e", "E", "r", "r", "o", "r">>)
  ELSE LET ssh == DictGet(cfg, <<"s", "s", "h">>, VDict(<<>>))
       IN  IF ssh.t # "dict" THEN Raised(<<"A", "t", "t", "r", "i", "b", "u", "t", "e", "E", "r", "r", "o", "r">>)
           ELSE LET admin == DictGet(ssh, <<"a", "d", "m", "i", "n", "_", "u", "s", "e", "r", "n", "a", "m", "e">>, VNull)
                    ipv4 == DictGet(ssh, <<"a", "l", "l", "o", "w", "e", "d", "_", "i", "p", "v", "4">>, VNull)
                    found == RequiredProblem(<<"s", "s", "h", ".", "a", "d", "m", "i", "n", "_", "u", "s", "e", "r", "n", "a", "m", "e">>, admin)
                             \o RequiredProblem(<<"s", "s", "h", ".", "a", "l", "l", "o", "w", "e", "d", "_", "i", "p", "v", "4">>, ipv4)
                             \o DefaultNameRule(admin)
                    mask == MaskRule(ipv4)
                IN  IF mask.raised THEN mask
                    ELSE Returned(found \o mask.ret)

----------------------------------------------------------------------------
(* The documents and command lines main is run on *)

Absent == [t |-> "absent"]

\* A dict entry for key, or none when the choice is Absent
Opt(key, choice) == IF choice = Absent THEN <<>> ELSE << <<key, choice>> >>

AdminValues ==
  { Absent, VNull, VStr(<<>>), VStr(<<"C", "H", "A", "N", "G", "E", "M", "E">>), VStr(<<"C", "H", "A", "N", "G", "E", "M", "E", "/", "3", "2">>),
    VStr(<<"r", "o", "o", "t">>), VStr(<<"R", "o", "o", "t">>), VStr(<<"b", "o", "b">>) }

Ipv4Values ==
  { Absent, VNull, VStr(<<>>), VStr(<<"C", "H", "A", "N", "G", "E", "M", "E">>), VStr(<<"C", "H", "A", "N", "G", "E", "M", "E", "/", "3", "2">>),
    VStr(<<"1", ".", "2", ".", "3", ".", "4">>), VStr(<<"1", ".", "2", ".", "3", ".", "4", "/", "3", "2">>), VInt(5),
    VBytes(<<>>), VBytes(<<"1", ".", "2", ".", "3", ".", "4", "/", "3", "2">>), VSet(<<>>), VSet(<< <<"a">> >>) }

SshValues ==
  { VNull, VStr(<<"x">>), VList(<<>>) }
  \cup { VDict(Opt(<<"a", "d", "m", "i", "n", "_", "u", "s", "e", "r", "n", "a", "m", "e">>, a) \o Opt(<<"a", "l", "l", "o", "w", "e", "d", "_", "i", "p", "v", "4">>, i)) :
           a \in AdminValues, i \in Ipv4Values }

\* Documents that differ in the ssh group only
ValidationDocs == { VDict(<< <<<<"s", "s", "h">>, s>> >>) : s \in SshValues }

AzureChoices ==
  { Absent, VNull, VDict(<<>>),
    VDict(<< <<<<"s", "u", "b", "s", "c", "r", "i", "p", "t", "i", "o", "n">>, VStr(<<"s", "1">>)>> >>),
    VDict(<< <<<<"l", "o", "c", "a", "t", "i", "o", "n">>, VBytes(<<>>)>>,
             <<<<"r", "e", "s", "o", "u", "r", "c", "e", "_", "g", "r", "o", "u", "p">>, VBytes(<<"r", "g">>)>>,
             <<<<"v", "m", "_", "s", "i", "z", "e">>, VSet(<<>>)>>,
             <<<<"u", "s", "e", "_", "s", "t", "a", "t", "i", "c", "_", "i", "p">>, VSet(<< <<"a">> >>)>>,
             <<<<"a", "v", "a", "i", "l", "a", "b", "i", "l", "i", "t", "y", "_", "z", "o", "n", "e", "s">>, VOther(<<"2", "0", "0", "1", "-", "0", "1", "-", "0", "2">>)>> >>),
    VDict(<< <<<<"l", "o", "c", "a", "t", "i", "o", "n">>, VStr(<<"w", "e", "s", "t", "e", "u", "r", "o", "p", "e">>)>>,
             <<<<"s", "u", "b", "s", "c", "r", "i", "p", "t", "i", "o", "n">>, VStr(<<"s", "1">>)>>,
             <<<<"u", "s", "e", "_", "s", "t", "a", "t", "i", "c", "_", "i", "p">>, VBool(FALSE)>>,
             <<<<"a", "v", "a", "i", "l", "a", "b", "i", "l", "i", "t", "y", "_", "z", "o", "n", "e", "s">>, VList(<<VInt(1), VInt(2), VInt(3)>>)>> >>) }

SshChoices ==
  { Absent, VDict(<<>>),
    VDict(<< <<<<"a", "d", "m", "i", "n", "_", "u", "s", "e", "r", "n", "a", "m", "e">>, VStr(<<"b", "o", "b">>)>>,
             <<<<"a", "l", "l", "o", "w", "e", "d", "_", "i", "p", "v", "4">>, VStr(<<"1", ".", "2", ".", "3", ".", "4", "/", "3", "2">>)>>,
             <<<<"a", "l", "l", "o", "w", "e", "d", "_", "i", "p", "v", "6">>, VStr(<<>>)>>,
             <<<<"p", "o", "r", "t">>, VInt(22)>> >>) }

NetworkChoices ==
  { Absent, VDict(<<>>),
    VDict(<< <<<<"s", "u", "b", "n", "e", "t", "_", "a", "d", "d", "r", "e", "s", "s">>, VStr(<<"1", "0", ".", "0", ".", "1", ".", "0", "/", "2", "4">>)>>,
             <<<<"v", "n", "e", "t", "_", "a", "d", "d", "r", "e", "s", "s", "_", "s", "p", "a", "c", "e">>, VStr(<<"1", "0", ".", "0", ".", "0", ".", "0", "/", "1", "6">>)>> >>) }

WireguardChoices ==
  { Absent,
    VDict(<< <<<<"p", "o", "r", "t">>, VInt(0)>>, <<<<"s", "e", "r", "v", "e", "r", "_", "i", "p">>, VStr(<<"1", "0", ".", "8", ".", "0", ".", "1">>)>> >>),
    VDict(<< <<<<"p", "o", "r", "t">>, VInt(51820)>>, <<<<"s", "e", "r", "v", "e", "r", "_", "i", "p">>, VStr(<<"1", "0", ".", "8", ".", "0", ".", "1">>)>> >>) }

TagsChoices ==
  { Absent, VDict(<<>>), VStr(<<"x", "\n", "y">>),
    VDict(<< <<<<"e", "n", "v">>, VStr(<<"a", "\"", "b", "\\">>)>>,
             <<<<"o", "w", "n", "e", "r">>, VDict(<< <<<<"i", "d">>, VInt(-7)>> >>)>> >>) }

CaddyChoices == { Absent, VDict(<< <<<<"d", "o", "m", "a", "i", "n">>, VStr(<<"e", "x", "a", "m", "p", "l", "e", ".", "o", "r", "g">>)>> >>) }

ConversionDocs ==
  { VDict(Opt(<<"c", "a", "d", "d", "y">>, c) \o Opt(<<"t", "a", "g", "s">>, t) \o Opt(<<"a", "z", "u", "r", "e">>, a)
          \o Opt(<<"s", "s", "h">>, s) \o Opt(<<"n", "e", "t", "w", "o", "r", "k">>, n) \o Opt(<<"w", "i", "r", "e", "g", "u", "a", "r", "d">>, w)) :
      c \in CaddyChoices, t \in TagsChoices, a \in AzureChoices,
      s \in SshChoices, n \in NetworkChoices, w \in WireguardChoices }

\* Documents that are no mapping: the empty document, scalars, a sequence,
\* a set
TopLevelDocs ==
  { VNull, VStr(<<"a", "b", "c">>), VStr(<<"m", "y", " ", "t", "a", "g", "s">>), VList(<<>>), VInt(5), VBytes(<<"a", "z", "u", "r", "e">>),
    VSet(<<>>), VSet(<< <<"a", "z", "u", "r", "e">> >>), VSet(<< <<"a">>, <<"t", "a", "g", "s">> >>), VOther(<<"2", "0", "0", "1", "-", "0", "1", "-", "0", "2">>) }

Docs == ValidationDocs \cup ConversionDocs \cup TopLevelDocs

\* The documents that are run in every environment: one on which validation
\* raises, one with problems, one without, two whose text has a character
\* that not every encoding takes, one on which conversion raises
ValidSsh ==
  <<<<"s", "s", "h">>, VDict(<< <<<<"a", "d", "m", "i", "n", "_", "u", "s", "e", "r", "n", "a", "m", "e">>, VStr(<<"b", "o", "b">>)>>,
                     <<<<"a", "l", "l", "o", "w", "e", "d", "_", "i", "p", "v", "4">>, VStr(<<"1", ".", "2", ".", "3", ".", "4", "/", "3", "2">>)>> >>)>>

EnvDocs ==
  { VInt(5),
    VDict(<< <<<<"s", "s", "h">>, VDict(<<>>)>> >>),
    VDict(<< ValidSsh >>),
    VDict(<< ValidSsh, <<<<"t", "a", "g", "s">>, VDict(<< <<<<"a">>, VStr(<< "c", "a", "f", NonAscii >>)>> >>)>> >>),
    VDict(<< ValidSsh, <<<<"t", "a", "g", "s">>, VDict(<< <<<<"a">>, VStr(<< Surrogate >>)>> >>)>> >>),
    VDict(<< ValidSsh, <<<<"a", "z", "u", "r", "e">>, VNull>> >>) }

ConfigPath == <<"c", "o", "n", "f", "i", "g", ".", "y", "m", "l">>
OutputPath == <<"t", "e", "r", "r", "a", "f", "o", "r", "m", ".", "t", "f", "v", "a", "r", "s">>
YamlErrorText == <<"<", "y", "a", "m", "l", " ", "e", "r", "r", "o", "r", ">">>

----------------------------------------------------------------------------
(* main *)

NoArgs == [parsed |-> FALSE, validate |-> FALSE, output |-> VNull]
NoConfig == [t |-> "unset"]
NotCalled == [raised |-> FALSE, exc |-> <<"n", "o", "t", " ", "c", "a", "l", "l", "e", "d">>, ret |-> <<>>]
NotOpened == [opened |-> FALSE, text |-> <<>>]

\* What the interpreter prints for an exception main does not catch
Traceback(exc) == <<"T", "r", "a", "c", "e", "b", "a", "c", "k", " ", "(", "m", "o", "s", "t", " ", "r", "e", "c", "e", "n", "t", " ", "c", "a", "l", "l", " ", "l", "a", "s", "t", ")", ":", " ">> \o exc

\* What the interpreter prints at its end when flushing standard output fails
FlushMessage == <<"E", "x", "c", "e", "p", "t", "i", "o", "n", " ", "i", "g", "n", "o", "r", "e", "d", " ", "i", "n", ":", " ", "<", "s", "t", "d", "o", "u", "t", ">", " ", "O", "S", "E", "r", "r", "o", "r">>

\* The usage message of the parser that lines 150-153 build, as argparse
\* formats it for a terminal of the given number of columns
UsagePrefix == <<"u", "s", "a", "g", "e", ":", " ">>
Prog == <<"y", "a", "m", "l", "-", "t", "o", "-", "t", "f", "v", "a", "r", "s", ".", "p", "y">>
OptParts == << <<"[", "-", "h", "]">>, <<"[", "-", "-", "o", "u", "t", "p", "u", "t", " ", "O", "U", "T", "P", "U", "T", "]">>, <<"[", "-", "-", "v", "a", "l", "i", "d", "a", "t", "e", "]">> >>
PosParts == << <<"c", "o", "n", "f", "i", "g", "_", "f", "i", "l", "e">> >>

\* The loop of argparse's get_lines: parts are put on a line while they fit
RECURSIVE WrapParts(_, _, _, _, _, _)
WrapParts(parts, ind, width, lines, line, line_len) ==
  IF Len(parts) = 0
  THEN IF Len(line) > 0 THEN Append(lines, Spaces(ind) \o Join(line, <<" ">>)) ELSE lines
  ELSE IF line_len + 1 + Len(Head(parts)) > width /\ Len(line) > 0
       THEN WrapParts(Tail(parts), ind, width,
                      Append(lines, Spaces(ind) \o Join(line, <<" ">>)),
                      << Head(parts) >>, ind + Len(Head(parts)))
       ELSE WrapParts(Tail(parts), ind, width, lines, Append(line, Head(parts)),
                      line_len + Len(Head(parts)) + 1)

\* argparse's get_lines(parts, indent, prefix); prefixed: a prefix is given,
\* and the first line then loses its indent
get_lines(parts, ind, width, prefixed) ==
  LET lines == WrapParts(parts, ind, width, <<>>, <<>>,
                         IF prefixed THEN Len(UsagePrefix) - 1 ELSE ind - 1)
  IN  IF prefixed
      THEN << SubSeq(lines[1], ind + 1, Len(lines[1])) >> \o Tail(lines)
      ELSE lines

\* 'usage: ' and the usage, on one line when it fits the width
UsageText(columns) ==
  LET width == columns - 2
      usage == Join(<< Prog >> \o OptParts \o PosParts, <<" ">>)
      long == Len(UsagePrefix) + Len(Prog) + 1
      whole == get_lines(OptParts \o PosParts, Len(UsagePrefix), width, FALSE)
  IN  UsagePrefix
      \o (IF Len(UsagePrefix) + Len(usage) <= width THEN usage
          ELSE IF 4 * (Len(UsagePrefix) + Len(Prog)) <= 3 * width
          THEN Join(get_lines(<< Prog >> \o OptParts, long, width, TRUE)
                    \o get_lines(PosParts, long, width, FALSE), <<"\n">>)
          ELSE Join(<< Prog >>
                    \o (IF Len(whole) > 1
                        THEN get_lines(OptParts, Len(UsagePrefix), width, FALSE)
                             \o get_lines(PosParts, Len(UsagePrefix), width, FALSE)
                        ELSE whole),
                    <<"\n">>))

ArgErrorText == <<"<", "a", "r", "g", "u", "m", "e", "n", "t", " ", "e", "r", "r", "o", "r", ">">>
HelpBody == <<"<", "d", "e", "s", "c", "r", "i", "p", "t", "i", "o", "n", ",", " ", "a", "r", "g", "u", "m", "e", "n", "t", "s", " ", "a", "n", "d", " ", "o", "p", "t", "i", "o", "n", "s", ">">>
HelpText(columns) == UsageText(columns) \o <<"\n", "\n">> \o HelpBody

\* The command lines: one that parse_args accepts, with its --validate flag
\* and its --output value (None when the option is not given, and the empty
\* path is a value too); one it rejects (no config_file, an unknown option);
\* one with --help.
CommandLines ==
  { [kind |-> "valid", validate |-> v, output |-> o] :
      v \in BOOLEAN, o \in { VNull, VStr(<<>>), VStr(OutputPath) } }
  \cup { [kind |-> k, validate |-> v, output |-> VNull] :
           k \in {"invalid", "help"}, v \in BOOLEAN }

\* The file at args.config_file: "missing" (open raises FileNotFoundError),
\* "invalid" (safe_load raises yaml.YAMLError), "unreadable" (open or safe_load
\* raises another exception: a directory, bytes that do not decode, a
\* timestamp of no calendar day), "ok" (safe_load returns a document).
FileStates == {"missing", "invalid", "unreadable", "ok"}
LoadErrorText == <<"<", "e", "x", "c", "e", "p", "t", "i", "o", "n", " ", "o", "f", " ", "o", "p", "e", "n", " ", "o", "r", " ", "s", "a", "f", "e", "_", "l", "o", "a", "d", ">">>

\* The room of a stream or a file: the number of characters it takes before
\* a write to it fails (0: /dev/full; 10: a file size limit of 10), or
\* Unlimited.  The limited rooms are smaller than every text the program
\* writes, and every text starts with that many ASCII characters.
Unlimited == -1
Rooms == {Unlimited, 0, 10}
Encodings == {"utf-8", "ascii"}

HasRoom(n, room) == room = Unlimited \/ n <= room

\* What a stream or a file of the given room holds of a text
FirstChars(text, room) ==
  IF HasRoom(Len(text), room) THEN text ELSE SubSeq(text, 1, room)

\* text.encode(encoding) does not raise
Encodable(text, encoding) ==
  \A i \in DOMAIN text :
    /\ text[i] # Surrogate
    /\ encoding = "ascii" => text[i] # NonAscii

\* The process environment: the terminal width argparse reads, whether the
\* streams are unbuffered (PYTHONUNBUFFERED, -u), the room and the encoding
\* of standard output, the room of the error stream (which writes what it
\* cannot encode as an escape)
Columns == {80, 40, 20}
OrdinaryEnv ==
  [columns |-> 80, unbuffered |-> FALSE, stdout_room |-> Unlimited,
   stdout_encoding |-> "utf-8", stderr_room |-> Unlimited]
Envs ==
  [columns : Columns, unbuffered : BOOLEAN, stdout_room : Rooms,
   stdout_encoding : Encodings, stderr_room : {Unlimited, 0}]

\* The path at args.output: "no_open" (open raises: no such directory, a
\* directory), or "writable" with the room of the file and the encoding
\* open(args.output, 'w') gives it (the locale's)
OrdinaryOut == [kind |-> "writable", room |-> Unlimited, encoding |-> "utf-8"]
Outs ==
  { [kind |-> "no_open", room |-> Unlimited, encoding |-> "utf-8"] }
  \cup [kind : {"writable"}, room : Rooms, encoding : Encodings]
OutputErrorText == <<"<", "e", "x", "c", "e", "p", "t", "i", "o", "n", " ", "o", "f", " ", "o", "p", "e", "n", " ", "o", "r", " ", "w", "r", "i", "t", "e", ">">>

HclIdle ==
  /\ value = VNull
  /\ indent = 0
  /\ hcl = <<>>
  /\ spc = "idle"

\* The process at its start.  What a run never reads is held at one value:
\* the command line when PyYAML is missing, the input file when the command
\* line does not parse, the document when the file does not load, the
\* terminal width when the command line parses, the output path when no
\* output file is named.  The environments and output paths other than the
\* ordinary ones are combined with the documents of EnvDocs.
Init ==
  /\ yaml_installed \in BOOLEAN
  /\ argv \in (IF yaml_installed THEN CommandLines
               ELSE {[kind |-> "valid", validate |-> FALSE, output |-> VNull]})
  /\ file_state \in (IF yaml_installed /\ argv.kind = "valid" THEN FileStates ELSE {"ok"})
  /\ file_doc \in (IF yaml_installed /\ argv.kind = "valid" /\ file_state = "ok"
                   THEN Docs \cup EnvDocs ELSE {VNull})
  /\ env \in (IF file_doc \in EnvDocs \cup {VNull}
              THEN { e \in Envs : (yaml_installed /\ argv.kind # "valid") \/ e.columns = 80 }
              ELSE {OrdinaryEnv})
  /\ out_path \in (IF Truthy(argv.output) /\ file_doc \in EnvDocs THEN Outs ELSE {OrdinaryOut})
  /\ args = NoArgs
  /\ config = NoConfig
  /\ errors = NotCalled
  /\ tfvars = NotCalled
  /\ out_file = NotOpened
  /\ stdout = <<>>
  /\ stderr = <<>>
  /\ exit_code = -1
  /\ pc = "import"
  /\ HclIdle

\* The process ends with the status
Exit(status) ==
  /\ exit_code' = status
  /\ pc' = "exit"

\* The error stream takes nothing
StderrFull == env.stderr_room = 0

\* The status of a process that would end with code and that has written to
\* an error stream that takes nothing: unbuffered, the write is all that
\* failed; buffered, the stream keeps what it could not write and the flush
\* at the end of the interpreter fails, which makes the status 120.
Lost(code) == IF env.unbuffered THEN code ELSE 120

\* print(line, file=sys.stderr) for each line, then sys.exit(code).  On an
\* error stream that takes nothing the first print raises OSError, which
\* nothing catches and whose traceback the stream does not take either.
PrintErrAndExit(lines, code) ==
  IF StderrFull
  THEN /\ UNCHANGED stderr
       /\ Exit(Lost(1))
  ELSE /\ stderr' = stderr \o lines
       /\ Exit(code)

\* An exception that main does not catch: the interpreter prints the
\* traceback and ends with status 1
Uncaught(exc) == PrintErrAndExit(<< Traceback(exc) >>, 1)

\* print(text), the last statement before the process ends with code.
\* A text the stream cannot encode raises at the print.  A text that has no
\* room (with its newline) raises OSError at the print when the stream is
\* unbuffered (argparse catches it: caught), and at the flush of the ending
\* interpreter otherwise, which reports it and makes the status 120.
PrintOutAndExit(text, caught, code) ==
  IF ~Encodable(text, env.stdout_encoding)
  THEN /\ UNCHANGED stdout
       /\ Uncaught(<<"U", "n", "i", "c", "o", "d", "e", "E", "n", "c", "o", "d", "e", "E", "r", "r", "o", "r">>)
  ELSE IF HasRoom(Len(text) + 1, env.stdout_room)
  THEN /\ stdout' = stdout \o << text >>
       /\ UNCHANGED stderr
       /\ Exit(code)
  ELSE /\ stdout' = IF env.stdout_room = 0 THEN stdout
                    ELSE stdout \o << FirstChars(text, env.stdout_room) >>
       /\ IF env.unbuffered
          THEN IF caught
               THEN /\ UNCHANGED stderr
                    /\ Exit(code)
               ELSE Uncaught(<<"O", "S", "E", "r", "r", "o", "r">>)
          ELSE /\ stderr' = IF StderrFull THEN stderr ELSE stderr \o << FlushMessage >>
               /\ Exit(120)

\* lines 17-21: import yaml, or report that it is missing and leave
ImportYaml ==
  /\ pc = "import"
  /\ IF yaml_installed
     THEN /\ pc' = "parse_args"
          /\ UNCHANGED <<stderr, exit_code>>
     ELSE PrintErrAndExit(<< <<"E", "r", "r", "o", "r", ":", " ", "P", "y", "Y", "A", "M", "L", " ", "n", "o", "t", " ", "i", "n", "s", "t", "a", "l", "l", "e", "d", ".", " ", "R", "u", "n", ":", " ", "p", "i", "p", " ", "i", "n", "s", "t", "a", "l", "l", " ", "p", "y", "y", "a", "m", "l">> >>, 1)
  /\ UNCHANGED <<yaml_installed, argv, file_state, file_doc, env, out_path, args, config,
                 errors, tfvars, out_file, stdout>>
  /\ UNCHANGED hclVars

\* lines 150-154: args = parser.parse_args().  argparse catches the OSError
\* of its own writes.
ParseArgs ==
  /\ pc = "parse_args"
  /\ IF argv.kind = "invalid"
     THEN /\ IF StderrFull
             THEN /\ UNCHANGED stderr
                  /\ Exit(Lost(2))
             ELSE /\ stderr' = stderr \o << UsageText(env.columns),
                                            <<"y", "a", "m", "l", "-", "t", "o", "-", "t", "f", "v", "a", "r", "s", ".", "p", "y", ":", " ", "e", "r", "r", "o", "r", ":", " ">> \o ArgErrorText >>
                  /\ Exit(2)
          /\ UNCHANGED <<args, stdout>>
     ELSE IF argv.kind = "help"
     THEN /\ PrintOutAndExit(HelpText(env.columns), TRUE, 0)
          /\ UNCHANGED args
     ELSE /\ args' = [parsed |-> TRUE, validate |-> argv.validate, output |-> argv.output]
          /\ pc' = "load"
          /\ UNCHANGED <<stdout, stderr, exit_code>>
  /\ UNCHANGED <<yaml_installed, argv, file_state, file_doc, env, out_path, config, errors,
                 tfvars, out_file>>
  /\ UNCHANGED hclVars

\* lines 156-166: open and parse the config file
Load ==
  /\ pc = "load"
  /\ IF file_state = "missing"
     THEN /\ PrintErrAndExit(
               << <<"E", "r", "r", "o", "r", ":", " ", "C", "o", "n", "f", "i", "g", " ", "f", "i", "l", "e", " ", "n", "o", "t", " ", "f", "o", "u", "n", "d", ":", " ">> \o ConfigPath,
                  <<"C", "o", "p", "y", " ", "c", "o", "n", "f", "i", "g", ".", "y", "m", "l", ".", "e", "x", "a", "m", "p", "l", "e", " ", "t", "o", " ", "c", "o", "n", "f", "i", "g", ".", "y", "m", "l", " ", "a", "n", "d", " ", "c", "u", "s", "t", "o", "m", "i", "z", "e", " ", "i", "t", ".">> >>, 1)
          /\ UNCHANGED config
     ELSE IF file_state = "invalid"
     THEN /\ PrintErrAndExit(<< <<"E", "r", "r", "o", "r", " ", "p", "a", "r", "s", "i", "n", "g", " ", "Y", "A", "M", "L", ":", " ">> \o YamlErrorText >>, 1)
          /\ UNCHANGED config
     ELSE IF file_state = "unreadable"
     THEN /\ Uncaught(LoadErrorText)
          /\ UNCHANGED config
     ELSE /\ config' = file_doc
          /\ pc' = "validate"
          /\ UNCHANGED <<stderr, exit_code>>
  /\ UNCHANGED <<yaml_installed, argv, file_state, file_doc, env, out_path, args, errors,
                 tfvars, out_file, stdout>>
  /\ UNCHANGED hclVars

\* line 169: errors = validate_config(config)
Validate ==
  /\ pc = "validate"
  /\ errors' = validate_config(config)
  /\ IF errors'.raised
     THEN Uncaught(errors'.exc)
     ELSE /\ pc' = "report"
          /\ UNCHANGED <<stderr, exit_code>>
  /\ UNCHANGED <<yaml_installed, argv, file_state, file_doc, env, out_path, args, config,
                 tfvars, out_file, stdout>>
  /\ UNCHANGED hclVars

\* A driver whose validate-only branch does not leave when there are problems
ReportWithoutExit ==
  /\ pc = "report"
  /\ IF Len(errors.ret) > 0
     THEN IF StderrFull
          THEN /\ PrintErrAndExit(<< <<"C", "o", "n", "f", "i", "g", "u", "r", "a", "t", "i", "o", "n", " ", "e", "r", "r", "o", "r", "s", ":">> >>, 1)
               /\ UNCHANGED stdout
          ELSE /\ stderr' = stderr \o << <<"C", "o", "n", "f", "i", "g", "u", "r", "a", "t", "i", "o", "n", " ", "e", "r", "r", "o", "r", "s", ":">> >> \o errors.ret
               /\ pc' = "convert"
               /\ UNCHANGED <<stdout, exit_code>>
     ELSE IF args.validate
          THEN PrintOutAndExit(<<"C", "o", "n", "f", "i", "g", "u", "r", "a", "t", "i", "o", "n", " ", "i", "s", " ", "v", "a", "l", "i", "d", ".">>, FALSE, 0)
          ELSE /\ pc' = "convert"
               /\ UNCHANGED <<stdout, stderr, exit_code>>
  /\ UNCHANGED <<yaml_installed, argv, file_state, file_doc, env, out_path, args, config,
                 errors, tfvars, out_file>>
  /\ UNCHANGED hclVars

\* lines 170-179: report the problems, and leave in validate-only mode
Report ==
  /\ pc = "report"
  /\ IF Len(errors.ret) > 0
     THEN IF StderrFull \/ args.validate
          THEN /\ PrintErrAndExit(<< <<"C", "o", "n", "f", "i", "g", "u", "r", "a", "t", "i", "o", "n", " ", "e", "r", "r", "o", "r", "s", ":">> >> \o errors.ret, 1)
               /\ UNCHANGED stdout
          ELSE /\ stderr' = stderr \o << <<"C", "o", "n", "f", "i", "g", "u", "r", "a", "t", "i", "o", "n", " ", "e", "r", "r", "o", "r", "s", ":">> >> \o errors.ret
                            \o << <<"\n", "C", "o", "n", "t", "i", "n", "u", "i", "n", "g", " ", "a", "n", "y", "w", "a", "y", " ", "(", "T", "e", "r", "r", "a", "f", "o", "r", "m", " ", "w", "i", "l", "l", " ", "a", "l", "s", "o", " ", "v", "a", "l", "i", "d", "a", "t", "e", ")", ".", ".", ".">> >>
               /\ pc' = "convert"
               /\ UNCHANGED <<stdout, exit_code>>
     ELSE IF args.validate
          THEN PrintOutAndExit(<<"C", "o", "n", "f", "i", "g", "u", "r", "a", "t", "i", "o", "n", " ", "i", "s", " ", "v", "a", "l", "i", "d", ".">>, FALSE, 0)
          ELSE /\ pc' = "convert"
               /\ UNCHANGED <<stdout, stderr, exit_code>>
  /\ UNCHANGED <<yaml_installed, argv, file_state, file_doc, env, out_path, args, config,
                 errors, tfvars, out_file>>
  /\ UNCHANGED hclVars

\* A driver that opens the output file before it converts
ConvertIntoOpenFile ==
  /\ pc = "convert"
  /\ tfvars' = yaml_to_tfvars(config)
  /\ out_file' = IF Truthy(args.output) /\ out_path.kind = "writable"
                 THEN [opened |-> TRUE, text |-> <<>>] ELSE out_file
  /\ IF tfvars'.raised
     THEN Uncaught(tfvars'.exc)
     ELSE /\ pc' = "output"
          /\ UNCHANGED <<stderr, exit_code>>
  /\ UNCHANGED <<yaml_installed, argv, file_state, file_doc, env, out_path, args, config,
                 errors, stdout>>
  /\ UNCHANGED hclVars

\* line 182: tfvars = yaml_to_tfvars(config)
Convert ==
  /\ pc = "convert"
  /\ tfvars' = yaml_to_tfvars(config)
  /\ IF tfvars'.raised
     THEN Uncaught(tfvars'.exc)
     ELSE /\ pc' = "output"
          /\ UNCHANGED <<stderr, exit_code>>
  /\ UNCHANGED <<yaml_installed, argv, file_state, file_doc, env, out_path, args, config,
                 errors, out_file, stdout>>
  /\ UNCHANGED hclVars

\* lines 185-190: write the text to the output file or print it.  open
\* truncates the file; a text the file cannot encode raises at the write, a
\* text the file has no room for at the close, and the file then holds what
\* it had room for.
Output ==
  /\ pc = "output"
  /\ IF Truthy(args.output)
     THEN IF out_path.kind = "no_open"
          THEN /\ Uncaught(OutputErrorText)
               /\ UNCHANGED <<out_file, stdout>>
          ELSE IF ~Encodable(tfvars.ret, out_path.encoding)
          THEN /\ out_file' = [opened |-> TRUE, text |-> <<>>]
               /\ Uncaught(<<"U", "n", "i", "c", "o", "d", "e", "E", "n", "c", "o", "d", "e", "E", "r", "r", "o", "r">>)
               /\ UNCHANGED stdout
          ELSE IF ~HasRoom(Len(tfvars.ret), out_path.room)
          THEN /\ out_file' = [opened |-> TRUE, text |-> FirstChars(tfvars.ret, out_path.room)]
               /\ Uncaught(OutputErrorText)
               /\ UNCHANGED stdout
          ELSE /\ out_file' = [opened |-> TRUE, text |-> tfvars.ret]
               /\ PrintErrAndExit(<< <<"G", "e", "n", "e", "r", "a", "t", "e", "d", ":", " ">> \o args.output.s >>, 0)
               /\ UNCHANGED stdout
     ELSE /\ PrintOutAndExit(tfvars.ret, FALSE, 0)
          /\ UNCHANGED out_file
  /\ UNCHANGED <<yaml_installed, argv, file_state, file_doc, env, out_path, args, config,
                 errors, tfvars>>
  /\ UNCHANGED hclVars

Next == ImportYaml \/ ParseArgs \/ Load \/ Validate \/ Report \/ Convert \/ Output

Spec == Init /\ [][Next]_vars

----------------------------------------------------------------------------
(* Runs of to_hcl_value alone: a value tree is built, then serialized *)

MaxDepth == 2
MaxItems == 2

\* Strings over the characters a, backslash, double quote and newline
Strings ==
  { <<>>, <<"a">>, <<"\\">>, <<"\"">>, <<"\n">>, <<"a", "\"">>, <<"\\", "\\">>, <<"\\", "\"">>, <<"\"", "\\">>, <<"\\", "n">>,
    <<"a", "\n", "b">>, <<"\"", "a", "\"">> }

Atoms ==
  { VNull, VBool(TRUE), VBool(FALSE), VInt(0), VInt(-7), VInt(120),
    VList(<<>>), VDict(<<>>) }
  \cup { VStr(s) : s \in Strings }

\* The value appended to a sequence or put into a mapping that exists
Filler == VInt(1)

Keys == { <<"a">>, <<"k", "_", "1">>, <<"\"">> }

Indents == {0, 3}

RECURSIVE Depth(_)
Depth(v) ==
  LET Max(S) == IF S = {} THEN 0 ELSE CHOOSE m \in S : \A x \in S : x <= m
  IN  CASE v.t = "list" -> 1 + Max({ Depth(v.items[i]) : i \in DOMAIN v.items })
        [] v.t = "dict" -> 1 + Max({ Depth(v.entries[i][2]) : i \in DOMAIN v.entries })
        [] OTHER -> 0

MainIdle ==
  /\ yaml_installed = TRUE
  /\ argv = [kind |-> "valid", validate |-> FALSE, output |-> VNull]
  /\ file_state = "ok"
  /\ file_doc = VNull
  /\ env = OrdinaryEnv
  /\ out_path = OrdinaryOut
  /\ args = NoArgs
  /\ config = NoConfig
  /\ errors = NotCalled
  /\ tfvars = NotCalled
  /\ out_file = NotOpened
  /\ stdout = <<>>
  /\ stderr = <<>>
  /\ exit_code = -1
  /\ pc = "idle"

HclInit ==
  /\ value \in Atoms
  /\ indent = 0
  /\ hcl = <<>>
  /\ spc = "build"
  /\ MainIdle

\* [value]
WrapList ==
  /\ spc = "build"
  /\ Depth(value) < MaxDepth
  /\ value' = VList(<<value>>)
  /\ UNCHANGED <<indent, hcl, spc>>
  /\ UNCHANGED mainVars

\* value.append(filler), for a list
ListAppend ==
  /\ spc = "build"
  /\ value.t = "list"
  /\ Len(value.items) < MaxItems
  /\ value' = VList(Append(value.items, Filler))
  /\ UNCHANGED <<indent, hcl, spc>>
  /\ UNCHANGED mainVars

\* {key: value}
WrapDict ==
  /\ spc = "build"
  /\ Depth(value) < MaxDepth
  /\ \E k \in Keys : value' = VDict(<< <<k, value>> >>)
  /\ UNCHANGED <<indent, hcl, spc>>
  /\ UNCHANGED mainVars

\* value[key] = filler, for a dict without the key
DictPut ==
  /\ spc = "build"
  /\ value.t = "dict"
  /\ Len(value.entries) < MaxItems
  /\ \E k \in Keys :
       /\ ~HasKey(value, k)
       /\ value' = VDict(Append(value.entries, <<k, Filler>>))
  /\ UNCHANGED <<indent, hcl, spc>>
  /\ UNCHANGED mainVars

\* hcl = to_hcl_value(value, indent), for an indent of the caller's
Serialize ==
  /\ spc = "build"
  /\ \E i \in Indents :
       /\ indent' = i
       /\ hcl' = to_hcl_value(value, i)
  /\ spc' = "done"
  /\ UNCHANGED value
  /\ UNCHANGED mainVars

HclNext == WrapList \/ ListAppend \/ WrapDict \/ DictPut \/ Serialize

SpecHcl == HclInit /\ [][HclNext]_vars

----------------------------------------------------------------------------
(* Reading the text back.  The repository has no parser; these operators   *)
(* read the literal grammar that to_hcl_value and yaml_to_tfvars write     *)
(* and are used only to state properties of the text.                      *)
(*   string   "..." with \\ for a backslash and \" for a double quote;     *)
(*            every other character, the newline too, stands for itself    *)
(*   boolean  true | false                                                 *)
(*   integer  an optional - and decimal digits                             *)
(*   sequence [] | [ value {, value} ]                                     *)
(*   mapping  {} | { newline {spaces identifier = value newline} spaces }  *)
(*   file     comment lines (#...), empty lines, identifier = value lines  *)

At(s, i) == IF i >= 1 /\ i <= Len(s) THEN s[i] ELSE ""

LookingAt(s, i, word) ==
  /\ i + Len(word) - 1 <= Len(s)
  /\ SubSeq(s, i, i + Len(word) - 1) = word

IsDigit(c) == \E d \in DOMAIN Digits : Digits[d] = c

DigitValue(c) == (CHOOSE d \in DOMAIN Digits : Digits[d] = c) - 1

IdentChars ==
  { "a", "b", "c", "d", "e", "f", "g", "h", "i", "j", "k", "l", "m", "n", "o", "p",
    "q", "r", "s", "t", "u", "v", "w", "x", "y", "z",
    "A", "B", "C", "D", "E", "F", "G", "H", "I", "J", "K", "L", "M", "N", "O", "P",
    "Q", "R", "S", "T", "U", "V", "W", "X", "Y", "Z", "_", "-" }
  \cup { Digits[d] : d \in DOMAIN Digits }

PFail == [ok |-> FALSE, v |-> VNull, next |-> 0]
POk(v, next) == [ok |-> TRUE, v |-> v, next |-> next]

\* The characters of a string literal, from position i inside it
RECURSIVE ParseString(_, _, _)
ParseString(s, i, acc) ==
  IF i > Len(s) THEN PFail
  ELSE IF s[i] = "\"" THEN POk(VStr(acc), i + 1)
  ELSE IF s[i] = "\\"
       THEN IF At(s, i + 1) \in {"\\", "\""}
            THEN ParseString(s, i + 2, Append(acc, s[i + 1]))
            ELSE PFail
  ELSE ParseString(s, i + 1, Append(acc, s[i]))

RECURSIVE ParseNat(_, _, _)
ParseNat(s, i, acc) ==
  IF IsDigit(At(s, i)) THEN ParseNat(s, i + 1, acc * 10 + DigitValue(s[i]))
  ELSE [n |-> acc, next |-> i]

RECURSIVE SkipSpaces(_, _)
SkipSpaces(s, i) == IF At(s, i) = " " THEN SkipSpaces(s, i + 1) ELSE i

\* The position after the identifier that starts at i (i when there is none)
RECURSIVE IdentEnd(_, _)
IdentEnd(s, i) == IF At(s, i) \in IdentChars THEN IdentEnd(s, i + 1) ELSE i

RECURSIVE ParseValue(_, _)
RECURSIVE ParseItems(_, _, _)
RECURSIVE ParseEntries(_, _, _)

ParseValue(s, i) ==
  LET c == At(s, i)
  IN  CASE c = "\"" -> ParseString(s, i + 1, <<>>)
        [] c = "[" ->
             IF At(s, i + 1) = "]" THEN POk(VList(<<>>), i + 2)
             ELSE ParseItems(s, i + 1, <<>>)
        [] c = "{" ->
             IF At(s, i + 1) = "}" THEN POk(VDict(<<>>), i + 2)
             ELSE IF At(s, i + 1) = "\n" THEN ParseEntries(s, i + 2, <<>>)
             ELSE PFail
        [] c = "-" ->
             IF IsDigit(At(s, i + 1))
             THEN LET r == ParseNat(s, i + 1, 0) IN POk(VInt(0 - r.n), r.next)
             ELSE PFail
        [] IsDigit(c) -> LET r == ParseNat(s, i, 0) IN POk(VInt(r.n), r.next)
        [] LookingAt(s, i, <<"t", "r", "u", "e">>) -> POk(VBool(TRUE), i + 4)
        [] LookingAt(s, i, <<"f", "a", "l", "s", "e">>) -> POk(VBool(FALSE), i + 5)
        [] OTHER -> PFail

ParseItems(s, i, acc) ==
  LET r == ParseValue(s, i)
  IN  IF ~r.ok THEN PFail
      ELSE IF At(s, r.next) = "]" THEN POk(VList(Append(acc, r.v)), r.next + 1)
      ELSE IF LookingAt(s, r.next, <<",", " ">>) THEN ParseItems(s, r.next + 2, Append(acc, r.v))
      ELSE PFail

ParseEntries(s, i, acc) ==
  LET j == SkipSpaces(s, i)
      e == IdentEnd(s, j)
  IN  IF At(s, j) = "}"
      THEN IF Len(acc) > 0 THEN POk(VDict(acc), j + 1) ELSE PFail
      ELSE IF e = j \/ ~LookingAt(s, e, <<" ", "=", " ">>) THEN PFail
      ELSE LET r == ParseValue(s, e + 3)
           IN  IF ~r.ok \/ At(s, r.next) # "\n" THEN PFail
               ELSE ParseEntries(s, r.next + 1, Append(acc, <<SubSeq(s, j, e - 1), r.v>>))

\* The whole text as one literal
ParseLiteral(s) ==
  LET r == ParseValue(s, 1)
  IN  IF r.ok /\ r.next = Len(s) + 1 THEN r ELSE PFail

\* The position of the first newline at or after i (Len(s) + 1 without one)
NewlineAt(s, i) ==
  IF \E j \in i..Len(s) : s[j] = "\n"
  THEN CHOOSE j \in i..Len(s) : s[j] = "\n" /\ \A k \in i..(j - 1) : s[k] # "\n"
  ELSE Len(s) + 1

\* The position after the next newline at or after i
LineEnd(s, i) == IF NewlineAt(s, i) > Len(s) THEN Len(s) + 1 ELSE NewlineAt(s, i) + 1

\* The statements of a tfvars text from position i: <<identifier, value>> pairs
RECURSIVE ParseFile(_, _, _)
ParseFile(s, i, acc) ==
  IF i > Len(s) THEN [ok |-> TRUE, stmts |-> acc]
  ELSE IF s[i] = "\n" THEN ParseFile(s, i + 1, acc)
  ELSE IF s[i] = "#" THEN ParseFile(s, LineEnd(s, i), acc)
  ELSE LET e == IdentEnd(s, i)
       IN  IF e = i \/ ~LookingAt(s, e, <<" ", "=", " ">>) THEN [ok |-> FALSE, stmts |-> acc]
           ELSE LET r == ParseValue(s, e + 3)
                IN  IF ~r.ok \/ At(s, r.next) \notin {"\n", ""}
                    THEN [ok |-> FALSE, stmts |-> acc]
                    ELSE ParseFile(s, r.next, Append(acc, <<SubSeq(s, i, e - 1), r.v>>))

\* The lines of a text: s.split('\n')
RECURSIVE SplitLines(_, _)
SplitLines(s, i) ==
  LET e == NewlineAt(s, i)
  IN  IF e > Len(s) THEN << SubSeq(s, i, Len(s)) >>
      ELSE << SubSeq(s, i, e - 1) >> \o SplitLines(s, e + 1)

Lines(s) == SplitLines(s, 1)

\* The number of spaces a line starts with
LeadingSpaces(line) == SkipSpaces(line, 1) - 1

----------------------------------------------------------------------------
(* Properties of to_hcl_value, checked under SpecHcl *)

\* The mapping keys of a tree are bare identifiers
RECURSIVE BareKeys(_)
BareKeys(v) ==
  CASE v.t = "list" -> \A i \in DOMAIN v.items : BareKeys(v.items[i])
    [] v.t = "dict" ->
         \A i \in DOMAIN v.entries :
           /\ Len(v.entries[i][1]) > 0
           /\ \A j \in DOMAIN v.entries[i][1] : v.entries[i][1][j] \in IdentChars
           /\ BareKeys(v.entries[i][2])
    [] OTHER -> TRUE

\* The tree with every null replaced by the empty string
RECURSIVE NullAsEmpty(_)
NullAsEmpty(v) ==
  CASE v.t = "null" -> VStr(<<>>)
    [] v.t = "list" -> VList([i \in DOMAIN v.items |-> NullAsEmpty(v.items[i])])
    [] v.t = "dict" ->
         VDict([i \in DOMAIN v.entries |->
                  <<v.entries[i][1], NullAsEmpty(v.entries[i][2])>>])
    [] OTHER -> v

\* In a rendered string every backslash and double quote of the input has
\* exactly one backslash added before it and nothing else is changed:
\* out, from position o, spells s from position i and then the closing quote.
RECURSIVE EscapedAs(_, _, _, _)
EscapedAs(s, i, out, o) ==
  IF i > Len(s) THEN o = Len(out) /\ out[o] = "\""
  ELSE IF s[i] \in {"\\", "\""}
       THEN /\ At(out, o) = "\\"
            /\ At(out, o + 1) = s[i]
            /\ EscapedAs(s, i + 1, out, o + 2)
  ELSE /\ At(out, o) = s[i]
       /\ EscapedAs(s, i + 1, out, o + 1)

ScalarRendering ==
  /\ value.t = "bool" => hcl = (IF value.b THEN <<"t", "r", "u", "e">> ELSE <<"f", "a", "l", "s", "e">>)
  /\ value.t = "str" => Len(hcl) >= 2 /\ hcl[1] = "\"" /\ EscapedAs(value.s, 1, hcl, 2)

\* C9 as stated: for every value tree of null, booleans, integers, strings,
\* sequences and string-keyed mappings, reading to_hcl_value(value) back as a
\* literal yields the value itself; booleans render as true/false and strings
\* with exactly their backslashes and double quotes escaped.
C9_RoundTripEveryTree ==
  spc = "done" =>
    /\ ParseLiteral(hcl).ok
    /\ ParseLiteral(hcl).v = value
    /\ ScalarRendering

\* C9 amended: for every value tree whose mapping keys are bare identifiers,
\* reading to_hcl_value(value) back yields the value with each null replaced
\* by the empty string (null is written as ""), so a tree without null reads
\* back as itself; booleans render as true/false and strings with exactly
\* their backslashes and double quotes escaped.
C9_RoundTrip ==
  spc = "done" =>
    /\ BareKeys(value) =>
         /\ ParseLiteral(hcl).ok
         /\ ParseLiteral(hcl).v = NullAsEmpty(value)
    /\ value = VNull => hcl = <<"\"", "\"">>
    /\ ScalarRendering

\* A mapping that holds a sequence that holds a string with a double quote
\* and a backslash has been serialized and reads back as itself.
C9_Witness ==
  /\ spc = "done"
  /\ value = VDict(<< <<<<"a">>, VList(<<VStr(<<"\"", "\\">>)>>)>> >>)
  /\ ParseLiteral(hcl).ok
  /\ ParseLiteral(hcl).v = value

\* The value renders on one line
RECURSIVE SingleLine(_)
SingleLine(v) ==
  CASE v.t = "str" -> \A j \in DOMAIN v.s : v.s[j] # "\n"
    [] v.t = "list" -> \A i \in DOMAIN v.items : SingleLine(v.items[i])
    [] v.t = "dict" -> Len(v.entries) = 0
    [] OTHER -> TRUE

\* A non-empty mapping whose values render on one line each
FlatDict(v) ==
  /\ v.t = "dict"
  /\ Len(v.entries) > 0
  /\ \A i \in DOMAIN v.entries : SingleLine(v.entries[i][2])

\* In the lines L, the mapping d opens at the end of line `first`, has its
\* `key = ` lines, in insertion order, at exactly keyInd spaces, and its
\* closing brace at exactly closeInd spaces.
BlockAt(L, first, d, keyInd, closeInd) ==
  LET n == Len(d.entries)
  IN  /\ Len(L) >= first + n + 1
      /\ L[first][Len(L[first])] = "{"
      /\ \A k \in 1..n :
           /\ LeadingSpaces(L[first + k]) = keyInd
           /\ LookingAt(L[first + k], keyInd + 1, d.entries[k][1] \o <<" ", "=", " ">>)
      /\ LeadingSpaces(L[first + n + 1]) = closeInd
      /\ At(L[first + n + 1], closeInd + 1) = "}"

\* A non-empty mapping at indent i: key lines at i+2, closing brace at i
MappingIndent ==
  FlatDict(value) =>
    /\ Len(Lines(hcl)) = Len(value.entries) + 2
    /\ Lines(hcl)[1] = <<"{">>
    /\ BlockAt(Lines(hcl), 1, value, indent + 2, indent)
    /\ Lines(hcl)[Len(value.entries) + 2] = Spaces(indent) \o <<"}">>

\* A non-empty sequence of one-line items is one line: [ items joined by ", " ]
SequenceOneLine ==
  (value.t = "list" /\ Len(value.items) > 0 /\ SingleLine(value)) =>
    /\ Len(Lines(hcl)) = 1
    /\ hcl[1] = "["
    /\ hcl[Len(hcl)] = "]"
    /\ LET r == ParseItems(hcl, 2, <<>>)
       IN  r.ok /\ r.next = Len(hcl) + 1 /\ Len(r.v.items) = Len(value.items)

SeqHoldsFlatDict ==
  /\ value.t = "list"
  /\ Len(value.items) > 0
  /\ FlatDict(value.items[1])

\* C10 as stated: a mapping at indent i has its key lines at i+2, in insertion
\* order, and its closing brace at i; a sequence is one line and adds no
\* indentation, so a mapping that is an item of a sequence rendered at indent i
\* has its key lines at i+2 and its closing brace at i.
C10_SequencesAddNoIndent ==
  spc = "done" =>
    /\ MappingIndent
    /\ SequenceOneLine
    /\ SeqHoldsFlatDict =>
         BlockAt(Lines(hcl), 1, value.items[1], indent + 2, indent)

\* C10 amended: a mapping at indent i has its key lines at i+2, in insertion
\* order, and its closing brace at i; a sequence of one-line items is one
\* line; a sequence writes no spaces of its own but renders its items at
\* indent i+2, so a mapping that is an item of a sequence rendered at indent i
\* has its key lines at i+4 and its closing brace at i+2.
C10_Indentation ==
  spc = "done" =>
    /\ MappingIndent
    /\ SequenceOneLine
    /\ SeqHoldsFlatDict =>
         BlockAt(Lines(hcl), 1, value.items[1], indent + 4, indent + 2)

\* A sequence whose first item is a mapping of two entries has been
\* serialized at indent 3.
C10_Witness ==
  /\ spc = "done"
  /\ indent = 3
  /\ SeqHoldsFlatDict
  /\ Len(value.items[1].entries) = 2

----------------------------------------------------------------------------
(* Properties of main, validate_config and yaml_to_tfvars, checked under Spec *)

ValidMessage == <<"C", "o", "n", "f", "i", "g", "u", "r", "a", "t", "i", "o", "n", " ", "i", "s", " ", "v", "a", "l", "i", "d", ".">>

Loaded == config # NoConfig
Validated == errors # NotCalled
Converted == tfvars # NotCalled

\* parse_args has returned and a Load step has ended the run
LoadFailed == pc = "exit" /\ args.parsed /\ ~Loaded

\* text is whole or a part of it that ends before it does
Prefix(text, whole) ==
  /\ Len(text) <= Len(whole)
  /\ text = SubSeq(whole, 1, Len(text))

\* Standard output has taken a text that is neither the success message nor
\* the help text nor a part of one of them
PrintedText ==
  \E i \in DOMAIN stdout :
    /\ ~Prefix(stdout[i], ValidMessage)
    /\ ~Prefix(stdout[i], HelpText(env.columns))

\* Standard output takes what is written to it; the error stream does
StdoutWritable == env.stdout_room = Unlimited
StderrWritable == env.stderr_room = Unlimited

\* C1: in validate-only mode no run ever produces converted output (the output
\* file is never opened, yaml_to_tfvars is never called and standard output
\* takes nothing but the success message, with or without --output); a run
\* whose validation returns no problems prints the success message and exits
\* 0 (standard output taking it), one whose validation returns problems
\* prints them to the error stream and exits 1 (the error stream taking them).
C1_ValidateOnly ==
  args.validate =>
    /\ out_file = NotOpened
    /\ ~Converted
    /\ \A i \in DOMAIN stdout : Prefix(stdout[i], ValidMessage)
    /\ (pc = "exit" /\ Validated /\ ~errors.raised) =>
         IF Len(errors.ret) = 0
         THEN StdoutWritable =>
                exit_code = 0 /\ stdout = << ValidMessage >> /\ stderr = <<>>
         ELSE StderrWritable =>
                /\ exit_code = 1
                /\ stdout = <<>>
                /\ stderr = << <<"C", "o", "n", "f", "i", "g", "u", "r", "a", "t", "i", "o", "n", " ", "e", "r", "r", "o", "r", "s", ":">> >> \o errors.ret

\* A validate-only run with --output given found no problem and has exited.
C1_Witness ==
  /\ args.validate
  /\ args.output = VStr(OutputPath)
  /\ out_path.kind = "writable"
  /\ pc = "exit"
  /\ exit_code = 0
  /\ stdout = << ValidMessage >>
  /\ out_file = NotOpened

\* C2: main exits 1 exactly when the input file is not found, the document
\* does not parse, or validate-only mode finds at least one problem; every
\* other run exits 0, and a normal-mode run with problems still produces the
\* converted output.
C2_ExitStatus ==
  (pc = "exit" /\ yaml_installed) =>
    /\ exit_code = 1 <=>
         \/ LoadFailed /\ file_state = "missing"
         \/ LoadFailed /\ file_state = "invalid"
         \/ args.validate /\ Validated /\ ~errors.raised /\ Len(errors.ret) > 0
    /\ exit_code # 1 => exit_code = 0
    /\ (Loaded /\ ~args.validate) =>
         /\ exit_code = 0
         /\ IF Truthy(args.output)
            THEN out_file.opened /\ out_file.text = tfvars.ret
            ELSE PrintedText

\* C3: validate_config never raises; it returns a list of problems for every
\* parsed document.
C3_ValidateNeverRaises == Validated => ~errors.raised

\* The value validate_config reads for an ssh field (null when there is none)
SshField(key) ==
  IF config.t = "dict" /\ DictGet(config, <<"s", "s", "h">>, VDict(<<>>)).t = "dict"
  THEN DictGet(DictGet(config, <<"s", "s", "h">>, VDict(<<>>)), key, Absent)
  ELSE Absent

NonEmptyStr(v) == v.t = "str" /\ Len(v.s) > 0

\* validate_config returned the problem
Reported(problem) ==
  /\ ~errors.raised
  /\ \E i \in DOMAIN errors.ret : errors.ret[i] = problem

\* The ssh group is a mapping or is not there
SshReadable ==
  /\ config.t = "dict"
  /\ DictGet(config, <<"s", "s", "h">>, VDict(<<>>)).t = "dict"

\* C4: for a non-empty string ssh.admin_username the problem
\* 'ssh.admin_username: not set or still CHANGEME' is returned iff it equals
\* CHANGEME; for a non-empty string ssh.allowed_ipv4 its problem is returned
\* iff it equals CHANGEME or CHANGEME/32; an absent field's problem is always
\* returned.
C4_RequiredExact ==
  (Validated /\ SshReadable) =>
    LET admin == SshField(<<"a", "d", "m", "i", "n", "_", "u", "s", "e", "r", "n", "a", "m", "e">>)
        ipv4 == SshField(<<"a", "l", "l", "o", "w", "e", "d", "_", "i", "p", "v", "4">>)
    IN  /\ NonEmptyStr(admin) =>
             (Reported(NotSetProblem(<<"s", "s", "h", ".", "a", "d", "m", "i", "n", "_", "u", "s", "e", "r", "n", "a", "m", "e">>)) <=> admin.s = <<"C", "H", "A", "N", "G", "E", "M", "E">>)
        /\ NonEmptyStr(ipv4) =>
             (Reported(NotSetProblem(<<"s", "s", "h", ".", "a", "l", "l", "o", "w", "e", "d", "_", "i", "p", "v", "4">>))
                <=> ipv4.s \in { <<"C", "H", "A", "N", "G", "E", "M", "E">>, <<"C", "H", "A", "N", "G", "E", "M", "E", "/", "3", "2">> })
        /\ admin = Absent => Reported(NotSetProblem(<<"s", "s", "h", ".", "a", "d", "m", "i", "n", "_", "u", "s", "e", "r", "n", "a", "m", "e">>))
        /\ ipv4 = Absent => Reported(NotSetProblem(<<"s", "s", "h", ".", "a", "l", "l", "o", "w", "e", "d", "_", "i", "p", "v", "4">>))

\* The four rules as the specification states them
Present(v) == v # Absent /\ v.t # "null"

Rule1Problems(admin) ==
  IF ~Present(admin) \/ ~Truthy(admin) \/ EqStr(admin, <<"C", "H", "A", "N", "G", "E", "M", "E">>)
  THEN << NotSetProblem(<<"s", "s", "h", ".", "a", "d", "m", "i", "n", "_", "u", "s", "e", "r", "n", "a", "m", "e">>) >> ELSE <<>>

Rule2Problems(ipv4) ==
  IF ~Present(ipv4) \/ ~Truthy(ipv4) \/ EqStr(ipv4, <<"C", "H", "A", "N", "G", "E", "M", "E">>)
     \/ EqStr(ipv4, <<"C", "H", "A", "N", "G", "E", "M", "E", "/", "3", "2">>)
  THEN << NotSetProblem(<<"s", "s", "h", ".", "a", "l", "l", "o", "w", "e", "d", "_", "i", "p", "v", "4">>) >> ELSE <<>>

Rule3Problems(admin) ==
  IF Present(admin) /\ admin.t = "str"
     /\ admin.s \in { <<"a", "d", "m", "i", "n">>, <<"r", "o", "o", "t">>, <<"a", "z", "u", "r", "e", "u", "s", "e", "r">>, <<"u", "b", "u", "n", "t", "u">>, <<"a", "d", "m", "i", "n", "i", "s", "t", "r", "a", "t", "o", "r">> }
  THEN << DefaultNameProblem >> ELSE <<>>

Rule4Problems(ipv4) ==
  IF Present(ipv4) /\ ~(ipv4.t = "str" /\ EndsWith(ipv4.s, <<"/", "3", "2">>))
  THEN << MaskProblem >> ELSE <<>>

\* C5: every call evaluates the four rules, none short-circuits another, and
\* the problems of the violated rules are returned in the fixed order; a
\* default admin_username is flagged whatever the other fields are, and a
\* present allowed_ipv4 is flagged for its mask iff it does not end with /32.
C5_AllRulesEvaluated ==
  (Validated /\ SshReadable) =>
    LET admin == SshField(<<"a", "d", "m", "i", "n", "_", "u", "s", "e", "r", "n", "a", "m", "e">>)
        ipv4 == SshField(<<"a", "l", "l", "o", "w", "e", "d", "_", "i", "p", "v", "4">>)
    IN  /\ ~errors.raised
        /\ errors.ret = Rule1Problems(admin) \o Rule2Problems(ipv4)
                         \o Rule3Problems(admin) \o Rule4Problems(ipv4)

\* The identifiers yaml_to_tfvars may write, in the order of the sections
Whitelist ==
  << <<"l", "o", "c", "a", "t", "i", "o", "n">>, <<"r", "e", "s", "o", "u", "r", "c", "e", "_", "g", "r", "o", "u", "p", "_", "n", "a", "m", "e">>, <<"v", "m", "_", "s", "i", "z", "e">>, <<"u", "s", "e", "_", "s", "t", "a", "t", "i", "c", "_", "i", "p">>,
     <<"a", "v", "a", "i", "l", "a", "b", "i", "l", "i", "t", "y", "_", "z", "o", "n", "e", "s">>, <<"a", "d", "m", "i", "n", "_", "u", "s", "e", "r", "n", "a", "m", "e">>, <<"s", "s", "h", "_", "p", "u", "b", "l", "i", "c", "_", "k", "e", "y", "_", "p", "a", "t", "h">>,
     <<"a", "l", "l", "o", "w", "e", "d", "_", "s", "s", "h", "_", "i", "p", "v", "4">>, <<"a", "l", "l", "o", "w", "e", "d", "_", "s", "s", "h", "_", "i", "p", "v", "6">>, <<"v", "n", "e", "t", "_", "a", "d", "d", "r", "e", "s", "s", "_", "s", "p", "a", "c", "e">>,
     <<"s", "u", "b", "n", "e", "t", "_", "a", "d", "d", "r", "e", "s", "s">>, <<"w", "i", "r", "e", "g", "u", "a", "r", "d", "_", "p", "o", "r", "t">>, <<"t", "a", "g", "s">> >>

\* The fields of the data model that the converter reads, per group
WhitelistedKeys(name) ==
  CASE name = <<"a", "z", "u", "r", "e">> ->
         { <<"l", "o", "c", "a", "t", "i", "o", "n">>, <<"r", "e", "s", "o", "u", "r", "c", "e", "_", "g", "r", "o", "u", "p">>, <<"v", "m", "_", "s", "i", "z", "e">>, <<"u", "s", "e", "_", "s", "t", "a", "t", "i", "c", "_", "i", "p">>,
           <<"a", "v", "a", "i", "l", "a", "b", "i", "l", "i", "t", "y", "_", "z", "o", "n", "e", "s">> }
    [] name = <<"s", "s", "h">> ->
         { <<"a", "d", "m", "i", "n", "_", "u", "s", "e", "r", "n", "a", "m", "e">>, <<"p", "u", "b", "l", "i", "c", "_", "k", "e", "y", "_", "p", "a", "t", "h">>, <<"a", "l", "l", "o", "w", "e", "d", "_", "i", "p", "v", "4">>, <<"a", "l", "l", "o", "w", "e", "d", "_", "i", "p", "v", "6">> }
    [] name = <<"n", "e", "t", "w", "o", "r", "k">> -> { <<"v", "n", "e", "t", "_", "a", "d", "d", "r", "e", "s", "s", "_", "s", "p", "a", "c", "e">>, <<"s", "u", "b", "n", "e", "t", "_", "a", "d", "d", "r", "e", "s", "s">> }
    [] name = <<"w", "i", "r", "e", "g", "u", "a", "r", "d">> -> { <<"p", "o", "r", "t">> }
    [] OTHER -> {}

RecognizedGroups == { <<"a", "z", "u", "r", "e">>, <<"s", "s", "h">>, <<"n", "e", "t", "w", "o", "r", "k">>, <<"w", "i", "r", "e", "g", "u", "a", "r", "d">>, <<"t", "a", "g", "s">> }

\* The entries of a sequence of <<key, value>> pairs whose key is in keep
RECURSIVE KeepKeys(_, _)
KeepKeys(entries, keep) ==
  IF Len(entries) = 0 THEN <<>>
  ELSE (IF Head(entries)[1] \in keep THEN << Head(entries) >> ELSE <<>>)
       \o KeepKeys(Tail(entries), keep)

\* The document without its non-whitelisted fields: without the top-level
\* groups that are not recognized and, in each recognized group that is a
\* mapping, without the keys that are not whitelisted (tags is kept whole).
StripExtras(doc) ==
  IF doc.t # "dict" THEN doc
  ELSE LET kept == KeepKeys(doc.entries, RecognizedGroups)
       IN  VDict([i \in DOMAIN kept |->
                    IF kept[i][1] # <<"t", "a", "g", "s">> /\ kept[i][2].t = "dict"
                    THEN << kept[i][1],
                            VDict(KeepKeys(kept[i][2].entries,
                                           WhitelistedKeys(kept[i][1]))) >>
                    ELSE kept[i]])

\* C6: every assignment of the converted text has a whitelisted identifier,
\* and the outcome of yaml_to_tfvars is that of the document without its
\* non-whitelisted fields (extra keys of a recognized group, unrecognized
\* top-level groups), so two documents that differ only in those convert alike.
C6_WhitelistOnly ==
  Converted =>
    /\ tfvars = yaml_to_tfvars(StripExtras(config))
    /\ ~tfvars.raised =>
         LET f == ParseFile(tfvars.ret, 1, <<>>)
         IN  /\ f.ok
             /\ \A k \in DOMAIN f.stmts :
                  \E w \in DOMAIN Whitelist : f.stmts[k][1] = Whitelist[w]

\* A document with an unrecognized group and with extra keys in the azure and
\* wireguard groups has been converted and written to the output file.
C6_Witness ==
  /\ pc = "exit"
  /\ Converted
  /\ ~tfvars.raised
  /\ exit_code = 0
  /\ out_file.opened
  /\ HasKey(config, <<"c", "a", "d", "d", "y">>)
  /\ HasKey(config, <<"a", "z", "u", "r", "e">>)
  /\ HasKey(config, <<"w", "i", "r", "e", "g", "u", "a", "r", "d">>)
  /\ StripExtras(config) # config
  /\ Len(ParseFile(tfvars.ret, 1, <<>>).stmts) >= 4

\* The position of an identifier in the whitelist (0 when it is not there)
WhitelistIndex(id) ==
  IF \E w \in DOMAIN Whitelist : Whitelist[w] = id
  THEN CHOOSE w \in DOMAIN Whitelist : Whitelist[w] = id
  ELSE 0

\* C7: for every document the converted text is the header followed by the
\* emitted sections in the order azure, ssh, network, wireguard, tags, with
\* exactly one blank line between consecutive sections; a group that is
\* absent, or present with none of its fields emitted, adds nothing (no line,
\* no extra blank line, no error).
C7_Layout ==
  Converted =>
    /\ ~tfvars.raised
    /\ LET L == Lines(tfvars.ret)
           f == ParseFile(tfvars.ret, 1, <<>>)
       IN  /\ SubSeq(L, 1, 5) = SubSeq(Header, 1, 5)
           /\ \A k \in 1..(Len(L) - 1) : ~(L[k] = <<>> /\ L[k + 1] = <<>>)
           /\ f.ok
           /\ \A k \in 1..(Len(f.stmts) - 1) :
                WhitelistIndex(f.stmts[k][1]) < WhitelistIndex(f.stmts[k + 1][1])

\* C8 as stated: no partial output is ever written.  The output file is
\* opened, or the text printed, only after the input is loaded, validation
\* has run and yaml_to_tfvars has returned the complete text, and what the
\* file or standard output then holds is that text; a run that ends on
\* file-not-found, on a parse error or on an error raised in validation or
\* conversion leaves the output file unopened and prints no text.
C8_NoPartialOutput ==
  /\ (out_file.opened \/ PrintedText) =>
       /\ Loaded
       /\ Validated /\ ~errors.raised
       /\ Converted /\ ~tfvars.raised
       /\ tfvars = yaml_to_tfvars(config)
       /\ out_file.opened => out_file.text = tfvars.ret
       /\ PrintedText => stdout = << tfvars.ret >>
  /\ (pc = "exit" /\ (LoadFailed \/ errors.raised \/ tfvars.raised)) =>
       /\ exit_code # 0
       /\ out_file = NotOpened
       /\ ~PrintedText

\* C8, amended: the output file is opened, or the text printed, only after
\* the input is loaded, validation has run and yaml_to_tfvars has returned the
\* complete text; a run that ends on file-not-found, on a parse error or on
\* an error raised in validation or conversion leaves the output file
\* unopened and prints no text; the file or standard output holds the
\* complete text when the run exits 0, and holds a part of it (or nothing)
\* only when writing it failed, for want of room or of an encoding, in a run
\* that exits with a status other than 0.
C8_OutputOnlyAfterConversion ==
  /\ (out_file.opened \/ PrintedText) =>
       /\ Loaded
       /\ Validated /\ ~errors.raised
       /\ Converted /\ ~tfvars.raised
       /\ tfvars = yaml_to_tfvars(config)
       /\ pc = "exit"
       /\ PrintedText =>
            /\ Len(stdout) = 1
            /\ Prefix(stdout[1], tfvars.ret)
            /\ exit_code = 0 => stdout[1] = tfvars.ret
            /\ stdout[1] # tfvars.ret =>
                 ~HasRoom(Len(tfvars.ret) + 1, env.stdout_room)
       /\ out_file.opened =>
            /\ Prefix(out_file.text, tfvars.ret)
            /\ exit_code = 0 => out_file.text = tfvars.ret
            /\ out_file.text # tfvars.ret =>
                 \/ ~HasRoom(Len(tfvars.ret), out_path.room)
                 \/ ~Encodable(tfvars.ret, out_path.encoding)
  /\ (pc = "exit" /\ (LoadFailed \/ errors.raised \/ tfvars.raised)) =>
       /\ exit_code # 0
       /\ out_file = NotOpened
       /\ ~PrintedText

\* Writing the output file failed part-way: the run has exited 1 and the
\* file holds a part of the converted text.
C8_Witness ==
  /\ pc = "exit"
  /\ exit_code = 1
  /\ Converted
  /\ ~tfvars.raised
  /\ out_file.opened
  /\ Len(out_file.text) > 0
  /\ out_file.text # tfvars.ret

====
